---- MODULE Spec2Model ----
(***************************************************************************)
(* kubetest run orchestrator (kubetest/main.go): the phase sequence of     *)
(* complete(), the deferred result reporting, the artifact acquisition of  *)
(* acquireKubernetes() and the goroutine that tears the cluster down on    *)
(* an interrupt signal.                                                    *)
(***************************************************************************)
EXTENDS Integers, Sequences, FiniteSets, TLC

(* ------------------------------ bounds -------------------------------- *)

\* Number of interrupt signals the environment delivers in one execution.
MaxSignals == 2

\* Longest --extract list given on the command line.
MaxExtractLen == 2

\* Largest --timeout tried, in clock ticks.
MaxTimeout == 2

\* Clock ticks followed.
MaxClock == 3

\* Most entries of os.Environ() tried.
MaxEnv == 2

(* ----------------------------- constants ------------------------------ *)

\* make(chan os.Signal, 1)
ChanCap == 1

\* os.Exit(1) of the watcher and of log.Fatalf
ExitFailure == 1

\* exit status of a Go process that dies of an unhandled SIGINT
ExitSignal == 2

\* the value of an unset string flag
NoPath == ""
SavePath == "gs://save"
DumpPath == "/dump"
PublishPath == "gs://publish"

\* extractMode value of a restored state
load == "load"

\* --deployment values tried: the closed set of getDeployer and a stranger
Deployments == {"none", "bash", "kops", "kubernetes-anywhere", "bogus"}

(* -------------------------- options (flags) --------------------------- *)

extractStrategy(m, opt) == [mode |-> m, option |-> opt]

\* The i-th --extract flag value.
ExtractFlag(i) == extractStrategy("version", "v" \o ToString(i))

\* The --extract lists of length 0..MaxExtractLen.
ExtractSpecs == {[i \in 1..n |-> ExtractFlag(i)] : n \in 0..MaxExtractLen}

options ==
  [build : BOOLEAN, stage : BOOLEAN, extract : ExtractSpecs,
   deployment : Deployments, down : BOOLEAN, dump : {NoPath, DumpPath},
   federation : BOOLEAN, publish : {NoPath, PublishPath},
   save : {NoPath, SavePath}, test : BOOLEAN, up : BOOLEAN]

\* extractStrategies.Enabled(): a non-empty list.
Enabled(extract) == Len(extract) > 0

(* ------------------------------- state -------------------------------- *)

VARIABLES
  o,          \* the options of this run (o.extract is rewritten by acquire)
  extract0,   \* o.extract as given on the command line
  pc,         \* position of the primary flow (main -> complete)
  err,        \* the phase whose error complete() returns, "nil" if none
  phases,     \* phases of complete() started so far, in order
  suite,      \* the result report: testCase records appended by xmlWrap
  ops,        \* external operations invoked so far (by either flow)
  deploy,     \* the deployer handle of complete(), "nil" while unset
  deferred,   \* writeMetadata/writeXML are deferred
  xmlWrites,  \* junit_runner.xml written (times)
  metaWrites, \* metadata.json written (times)
  kubecfgLoads, \* loadKubeconfig calls
  runErr,     \* run(): a sub-step has failed
  wpc,        \* position of the signal watcher goroutine
  c,          \* signals queued in the channel c
  sigs,       \* interrupt signals delivered to the process so far
  fedErr,     \* watcher local: FedDown failed in this handling
  fedTried,   \* watcher: FedDown attempted in this handling
  downTried,  \* watcher: deploy.Down attempted in this handling
  wFed,       \* FedDown calls of the watcher
  wDown,      \* deploy.Down calls of the watcher
  handled,    \* signal handlings the watcher has finished
  exited,     \* the process has exited
  exitCode,   \* its exit status
  exitBy,     \* what ended it: "main", "fatal", "watcher", "signal"
  extractLog, \* what the Extract step of acquireKubernetes did, in order
  logged,     \* operations whose error was passed to log.Printf/Fatalf
  metaErr,    \* writeMetadata returned an error
  kubecfgErr, \* loadKubeconfig returned an error
  terminate,  \* the terminate timer
  interrupt,  \* the interrupt timer
  timeout,    \* --timeout, in clock ticks
  clock,      \* time elapsed since the process started, in ticks
  cpc,        \* position of complete() in the cancellation setup
  postFires,  \* sends on a timer channel since the setup ended, per timer
  environ,    \* os.Environ(): the "NAME=value" entries
  ver,        \* findVersion()
  m,          \* the metadata map of writeMetadata
  mi,         \* writeMetadata: index of the next entry of os.Environ()
  mpc         \* position of writeMetadata

vars == <<o, extract0, pc, err, phases, suite, ops, deploy, deferred,
          xmlWrites, metaWrites, kubecfgLoads, runErr, wpc, c, sigs, fedErr,
          fedTried, downTried, wFed, wDown, handled, exited, exitCode,
          exitBy, extractLog, logged, metaErr, kubecfgErr, terminate,
          interrupt, timeout, clock, cpc, postFires, environ, ver, m, mi,
          mpc>>

primaryVars == <<o, pc, err, phases, suite, deploy, deferred, xmlWrites,
                 metaWrites, kubecfgLoads, runErr>>

watcherVars == <<wpc, c, fedErr, fedTried, downTried, wFed, wDown, handled>>

exitVars == <<exited, exitCode, exitBy>>

noteVars == <<extractLog, logged, metaErr, kubecfgErr>>

\* The cancellation clock of complete().
clockVars == <<terminate, interrupt, timeout, clock, cpc, postFires>>

\* The state of writeMetadata.
metaVars == <<environ, ver, m, mi, mpc>>

\* What the phase sequence and the watcher leave alone.
otherVars == <<clockVars, metaVars>>

\* time.NewTimer(d) at clock 0: pending, nothing sent on its channel C and
\* nothing received from it.
NewTimer(d) == [st |-> "armed", when |-> d, C |-> 0, recv |-> 0]

\* The package-level timers as constructed, before complete() runs.
ClockStart ==
  /\ terminate = NewTimer(0)
  /\ interrupt = NewTimer(0)
  /\ clock = 0
  /\ cpc = "stop_terminate"
  /\ postFires = [terminate |-> 0, interrupt |-> 0]

\* writeMetadata not yet called.
MetaStart ==
  /\ m = << >>
  /\ mi = 1
  /\ mpc = "seed"

\* The strings of writeMetadata, as sequences of characters.
Unknown == <<"u", "n", "k", "n", "o", "w", "n">>
KeyVersion == <<"v", "e", "r", "s", "i", "o", "n">>
KeyJobVersion == <<"j", "o", "b", "-", "v", "e", "r", "s", "i", "o", "n">>

\* main() before complete(): nothing done, no watcher, process alive.
PhasesStart ==
  /\ extract0 = o.extract
  /\ pc = "complete"
  /\ err = "nil"
  /\ phases = <<>>
  /\ suite = <<>>
  /\ ops = {}
  /\ deploy = "nil"
  /\ deferred = FALSE
  /\ xmlWrites = 0
  /\ metaWrites = 0
  /\ kubecfgLoads = 0
  /\ runErr = FALSE
  /\ wpc = "off"
  /\ c = 0
  /\ sigs = 0
  /\ fedErr = FALSE
  /\ fedTried = FALSE
  /\ downTried = FALSE
  /\ wFed = 0
  /\ wDown = 0
  /\ handled = 0
  /\ exited = FALSE
  /\ exitCode = 0
  /\ exitBy = "none"
  /\ extractLog = <<>>
  /\ logged = {}
  /\ metaErr = FALSE
  /\ kubecfgErr = FALSE

\* The phase sequence and the watcher, for every combination of options;
\* the cancellation clock and the metadata are followed by SpecTimer and
\* SpecMeta.
Init ==
  /\ o \in options
  /\ PhasesStart
  /\ ClockStart /\ timeout = 0
  /\ MetaStart /\ environ = <<>> /\ ver = Unknown

(* ------------------------------ helpers ------------------------------- *)

\* testCase appended to suite.Cases by xmlWrap.
testCase(name, failed) == [Name |-> name, Failure |-> failed]

\* xmlWrap(name, f): run f, append its testCase, count a failure.
xmlWrap(s, name, failed) == Append(s, testCase(name, failed))

\* os.Exit / log.Fatalf: the process ends, no deferred function runs.
Exit(code, by) ==
  /\ exited' = TRUE
  /\ exitCode' = code
  /\ exitBy' = by

\* `return fmt.Errorf(...)` of complete(): go to the deferred functions.
Return(e) ==
  /\ err' = e
  /\ pc' = IF deferred THEN "writeXML" ELSE "main"

(* --------------------- primary flow: complete() ----------------------- *)

\* complete(), entry: the deferred writeMetadata and writeXML.
Complete ==
  /\ ~exited /\ pc = "complete"
  /\ deferred' = (o.dump # NoPath)
  /\ pc' = "prepare"
  /\ UNCHANGED <<o, extract0, err, phases, suite, ops, deploy, xmlWrites,
                 metaWrites, kubecfgLoads, runErr>>
  /\ UNCHANGED watcherVars /\ UNCHANGED sigs /\ UNCHANGED exitVars
  /\ UNCHANGED noteVars /\ UNCHANGED otherVars

\* Prepare with the early return lost: the error is noted, the flow goes on.
Prepare_NoAbort ==
  /\ ~exited /\ pc = "prepare"
  /\ phases' = Append(phases, "prepare")
  /\ ops' = ops \cup {"prepare"}
  /\ \E failed \in BOOLEAN :
       /\ err' = (IF failed THEN "prepare" ELSE err)
       /\ pc' = "build"
  /\ UNCHANGED <<o, extract0, suite, deploy, deferred, xmlWrites, metaWrites,
                 kubecfgLoads, runErr>>
  /\ UNCHANGED watcherVars /\ UNCHANGED sigs /\ UNCHANGED exitVars
  /\ UNCHANGED noteVars /\ UNCHANGED otherVars

\* if err := prepare(); err != nil { return ... }
Prepare ==
  /\ ~exited /\ pc = "prepare"
  /\ phases' = Append(phases, "prepare")
  /\ ops' = ops \cup {"prepare"}
  /\ \E failed \in BOOLEAN :
       IF failed THEN Return("prepare")
                 ELSE pc' = "build" /\ err' = err
  /\ UNCHANGED <<o, extract0, suite, deploy, deferred, xmlWrites, metaWrites,
                 kubecfgLoads, runErr>>
  /\ UNCHANGED watcherVars /\ UNCHANGED sigs /\ UNCHANGED exitVars
  /\ UNCHANGED noteVars /\ UNCHANGED otherVars

\* acquireKubernetes, Build: if o.build.Enabled() { xmlWrap("Build", ...) }
AcquireBuild ==
  /\ ~exited /\ pc = "build"
  /\ phases' = Append(phases, "acquire")
  /\ IF o.build
       THEN /\ ops' = ops \cup {"Build"}
            /\ \E failed \in BOOLEAN :
                 /\ suite' = xmlWrap(suite, "Build", failed)
                 /\ IF failed THEN Return("acquire")
                              ELSE pc' = "stage" /\ err' = err
       ELSE /\ pc' = "stage"
            /\ UNCHANGED <<ops, suite, err>>
  /\ UNCHANGED <<o, extract0, deploy, deferred, xmlWrites, metaWrites,
                 kubecfgLoads, runErr>>
  /\ UNCHANGED watcherVars /\ UNCHANGED sigs /\ UNCHANGED exitVars
  /\ UNCHANGED noteVars /\ UNCHANGED otherVars

\* AcquireStage without the Enabled() test.
AcquireStage_Ungated ==
  /\ ~exited /\ pc = "stage"
  /\ ops' = ops \cup {"Stage"}
  /\ \E failed \in BOOLEAN :
       /\ suite' = xmlWrap(suite, "Stage", failed)
       /\ IF failed THEN Return("acquire")
                    ELSE pc' = "extract" /\ err' = err
  /\ UNCHANGED <<o, extract0, phases, deploy, deferred, xmlWrites, metaWrites,
                 kubecfgLoads, runErr>>
  /\ UNCHANGED watcherVars /\ UNCHANGED sigs /\ UNCHANGED exitVars
  /\ UNCHANGED noteVars /\ UNCHANGED otherVars

\* acquireKubernetes, Stage: if o.stage.Enabled() { xmlWrap("Stage", ...) }
AcquireStage ==
  /\ ~exited /\ pc = "stage"
  /\ IF o.stage
       THEN /\ ops' = ops \cup {"Stage"}
            /\ \E failed \in BOOLEAN :
                 /\ suite' = xmlWrap(suite, "Stage", failed)
                 /\ IF failed THEN Return("acquire")
                              ELSE pc' = "extract" /\ err' = err
       ELSE /\ pc' = "extract"
            /\ UNCHANGED <<ops, suite, err>>
  /\ UNCHANGED <<o, extract0, phases, deploy, deferred, xmlWrites, metaWrites,
                 kubecfgLoads, runErr>>
  /\ UNCHANGED watcherVars /\ UNCHANGED sigs /\ UNCHANGED exitVars
  /\ UNCHANGED noteVars /\ UNCHANGED otherVars

\* The extract list after the restore logic of the Extract closure.
RestoreExtract(opt) ==
  IF opt.save # NoPath /\ ~opt.up
    THEN <<extractStrategy(load, opt.save)>>
    ELSE opt.extract

\* The Extract closure calls loadKubeconfig(o.save).
LoadsKubeconfig(opt) ==
  /\ opt.save # NoPath
  /\ opt.up
  /\ opt.federation /\ opt.up /\ opt.deployment = "none"

\* The steps of xmlWrap("Extract", func() {...}) in order: xmlWrap is
\* entered (its timing starts), the closure runs its restore logic when a
\* save path asks for it, then o.extract.Extract(), and xmlWrap appends the
\* record.
ExtractSteps(opt) ==
  <<"xmlWrap">> \o
  (IF opt.save # NoPath /\ (~opt.up \/ LoadsKubeconfig(opt))
     THEN <<"restore">> ELSE <<>>) \o
  <<"Extract", "record">>

\* acquireKubernetes, Extract: if o.extract.Enabled() { xmlWrap("Extract",
\* func() { restore logic; return o.extract.Extract() }) }.  The result of
\* loadKubeconfig is not looked at.
AcquireExtract ==
  /\ ~exited /\ pc = "extract"
  /\ IF Enabled(o.extract)
       THEN /\ o' = [o EXCEPT !.extract = RestoreExtract(o)]
            /\ kubecfgLoads' = kubecfgLoads + (IF LoadsKubeconfig(o) THEN 1 ELSE 0)
            /\ ops' = ops \cup {"Extract"} \cup
                        (IF LoadsKubeconfig(o) THEN {"loadKubeconfig"} ELSE {})
            /\ extractLog' = ExtractSteps(o)
            /\ \E kfailed \in (IF LoadsKubeconfig(o) THEN BOOLEAN ELSE {FALSE}) :
                 kubecfgErr' = kfailed
            /\ \E failed \in BOOLEAN :
                 /\ suite' = xmlWrap(suite, "Extract", failed)
                 /\ IF failed THEN Return("acquire")
                              ELSE pc' = "validwd" /\ err' = err
       ELSE /\ pc' = "validwd"
            /\ UNCHANGED <<o, kubecfgLoads, ops, suite, err, extractLog,
                           kubecfgErr>>
  /\ UNCHANGED <<extract0, phases, deploy, deferred, xmlWrites, metaWrites,
                 runErr>>
  /\ UNCHANGED watcherVars /\ UNCHANGED sigs /\ UNCHANGED exitVars
  /\ UNCHANGED <<logged, metaErr>> /\ UNCHANGED otherVars

\* if err := validWorkingDirectory(); err != nil { return ... }
ValidWorkingDirectory ==
  /\ ~exited /\ pc = "validwd"
  /\ phases' = Append(phases, "validwd")
  /\ \E failed \in BOOLEAN :
       IF failed THEN Return("validwd")
                 ELSE pc' = "getDeployer" /\ err' = err
  /\ UNCHANGED <<o, extract0, suite, ops, deploy, deferred, xmlWrites,
                 metaWrites, kubecfgLoads, runErr>>
  /\ UNCHANGED watcherVars /\ UNCHANGED sigs /\ UNCHANGED exitVars
  /\ UNCHANGED noteVars /\ UNCHANGED otherVars

\* NewKops(): the kops deployer.
NewKops == {[handle |-> "kops", err |-> FALSE]}

\* NewKubernetesAnywhere(): the kubernetes-anywhere deployer.
NewKubernetesAnywhere == {[handle |-> "kubernetes-anywhere", err |-> FALSE]}

\* getDeployer whose default case falls back to the bash deployer.
getDeployer_DefaultBash(deployment) ==
  CASE deployment = "bash" -> {[handle |-> "bash", err |-> FALSE]}
    [] deployment = "kops" -> NewKops
    [] deployment = "kubernetes-anywhere" -> NewKubernetesAnywhere
    [] deployment = "none" -> {[handle |-> "none", err |-> FALSE]}
    [] OTHER -> {[handle |-> "bash", err |-> FALSE]}

\* getDeployer(deployment): the (handle, error) pairs it can return.
getDeployer(deployment) ==
  CASE deployment = "bash" -> {[handle |-> "bash", err |-> FALSE]}
    [] deployment = "kops" -> NewKops
    [] deployment = "kubernetes-anywhere" -> NewKubernetesAnywhere
    [] deployment = "none" -> {[handle |-> "none", err |-> FALSE]}
    [] OTHER -> {[handle |-> "nil", err |-> TRUE]}

\* SelectDeployer whose error does not stop the flow before the run body.
SelectDeployer_NoAbort ==
  /\ ~exited /\ pc = "getDeployer"
  /\ phases' = Append(phases, "getDeployer")
  /\ \E r \in getDeployer(o.deployment) :
       /\ deploy' = r.handle
       /\ err' = (IF r.err THEN "getDeployer" ELSE err)
       /\ pc' = (IF r.err THEN "run" ELSE "watch")
  /\ UNCHANGED <<o, extract0, suite, ops, deferred, xmlWrites, metaWrites,
                 kubecfgLoads, runErr>>
  /\ UNCHANGED watcherVars /\ UNCHANGED sigs /\ UNCHANGED exitVars
  /\ UNCHANGED noteVars /\ UNCHANGED otherVars

\* deploy, err := getDeployer(o.deployment); if err != nil { return ... }
SelectDeployer ==
  /\ ~exited /\ pc = "getDeployer"
  /\ phases' = Append(phases, "getDeployer")
  /\ \E r \in getDeployer(o.deployment) :
       /\ deploy' = r.handle
       /\ IF r.err THEN Return("getDeployer")
                   ELSE pc' = "watch" /\ err' = err
  /\ UNCHANGED <<o, extract0, suite, ops, deferred, xmlWrites, metaWrites,
                 kubecfgLoads, runErr>>
  /\ UNCHANGED watcherVars /\ UNCHANGED sigs /\ UNCHANGED exitVars
  /\ UNCHANGED noteVars /\ UNCHANGED otherVars

\* RegisterWatcher without the `if o.down` test.
RegisterWatcher_Always ==
  /\ ~exited /\ pc = "watch"
  /\ phases' = Append(phases, "watch")
  /\ wpc' = "recv"
  /\ pc' = "run"
  /\ UNCHANGED <<o, extract0, err, suite, ops, deploy, deferred, xmlWrites,
                 metaWrites, kubecfgLoads, runErr>>
  /\ UNCHANGED <<c, fedErr, fedTried, downTried, wFed, wDown, handled>>
  /\ UNCHANGED sigs /\ UNCHANGED exitVars
  /\ UNCHANGED noteVars /\ UNCHANGED otherVars

\* if o.down { c := make(chan os.Signal, 1); signal.Notify(c, os.Interrupt);
\* go func() {...}() }
RegisterWatcher ==
  /\ ~exited /\ pc = "watch"
  /\ IF o.down
       THEN /\ phases' = Append(phases, "watch")
            /\ wpc' = "recv"
       ELSE UNCHANGED <<phases, wpc>>
  /\ pc' = "run"
  /\ UNCHANGED <<o, extract0, err, suite, ops, deploy, deferred, xmlWrites,
                 metaWrites, kubecfgLoads, runErr>>
  /\ UNCHANGED <<c, fedErr, fedTried, downTried, wFed, wDown, handled>>
  /\ UNCHANGED sigs /\ UNCHANGED exitVars
  /\ UNCHANGED noteVars /\ UNCHANGED otherVars

(* ------------------------- run(deploy, *o) ---------------------------- *)

\* run(): where the flow goes after a sub-step; a failed sub-step skips the
\* rest except a requested tear-down.
AfterSubStep(here, failed, next) ==
  IF failed /\ here # "run_down"
    THEN (IF o.down THEN "run_down" ELSE "run_ret")
    ELSE next

\* One sub-step of run(): invoke op through xmlWrap when wanted.
SubStep(here, wanted, op, next) ==
  /\ ~exited /\ pc = here
  /\ IF wanted
       THEN /\ ops' = ops \cup {op}
            /\ \E failed \in BOOLEAN :
                 /\ suite' = xmlWrap(suite, op, failed)
                 /\ runErr' = (runErr \/ failed)
                 /\ pc' = AfterSubStep(here, failed, next)
       ELSE /\ pc' = next
            /\ UNCHANGED <<ops, suite, runErr>>
  /\ UNCHANGED <<o, extract0, err, deploy, deferred, xmlWrites, metaWrites,
                 kubecfgLoads>>
  /\ UNCHANGED watcherVars /\ UNCHANGED sigs /\ UNCHANGED exitVars
  /\ UNCHANGED noteVars /\ UNCHANGED otherVars

\* run(), entry and deploy.Up() if o.up
RunUp ==
  /\ SubStep("run", o.up, "Up", "run_isup")
  /\ phases' = Append(phases, "run")

\* run(): deploy.IsUp()
RunIsUp ==
  /\ SubStep("run_isup", TRUE, "IsUp", "run_kubecfg")
  /\ UNCHANGED phases

\* run(): deploy.SetupKubecfg()
RunSetupKubecfg ==
  /\ SubStep("run_kubecfg", TRUE, "SetupKubecfg", "run_test")
  /\ UNCHANGED phases

\* run(): the external test command if o.test
RunTest ==
  /\ SubStep("run_test", o.test, "Test", "run_down")
  /\ UNCHANGED phases

\* run(): deploy.Down() if o.down, attempted also after a failed sub-step
RunDown ==
  /\ SubStep("run_down", o.down, "Down", "run_ret")
  /\ UNCHANGED phases

\* if err := run(deploy, *o); err != nil { return err }
RunReturn ==
  /\ ~exited /\ pc = "run_ret"
  /\ IF runErr THEN Return("run")
               ELSE pc' = "save" /\ err' = err
  /\ UNCHANGED <<o, extract0, phases, suite, ops, deploy, deferred,
                 xmlWrites, metaWrites, kubecfgLoads, runErr>>
  /\ UNCHANGED watcherVars /\ UNCHANGED sigs /\ UNCHANGED exitVars
  /\ UNCHANGED noteVars /\ UNCHANGED otherVars

(* ------------------- complete(): persist and publish ------------------ *)

\* SavesState without its second alternative.
SavesState_UpNotDownOnly(opt) ==
  /\ opt.save # NoPath
  /\ ~opt.down /\ opt.up

\* The condition under which complete() calls saveState.
SavesState(opt) ==
  /\ opt.save # NoPath
  /\ \/ ~opt.down /\ opt.up
     \/ ~opt.federation /\ opt.up /\ opt.deployment # "none"

\* if o.save != "" && (...) { if err := saveState(o.save); ... }
SaveState ==
  /\ ~exited /\ pc = "save"
  /\ IF SavesState(o)
       THEN /\ phases' = Append(phases, "saveState")
            /\ ops' = ops \cup {"saveState"}
            /\ \E failed \in BOOLEAN :
                 IF failed THEN Return("saveState")
                           ELSE pc' = "publish" /\ err' = err
       ELSE /\ pc' = "publish"
            /\ UNCHANGED <<phases, ops, err>>
  /\ UNCHANGED <<o, extract0, suite, deploy, deferred, xmlWrites, metaWrites,
                 kubecfgLoads, runErr>>
  /\ UNCHANGED watcherVars /\ UNCHANGED sigs /\ UNCHANGED exitVars
  /\ UNCHANGED noteVars /\ UNCHANGED otherVars

\* if o.publish != "" { if err := publish(o.publish); ... }; return nil
Publish ==
  /\ ~exited /\ pc = "publish"
  /\ IF o.publish # NoPath
       THEN /\ phases' = Append(phases, "publish")
            /\ ops' = ops \cup {"publish"}
            /\ \E failed \in BOOLEAN :
                 Return(IF failed THEN "publish" ELSE "nil")
       ELSE /\ Return("nil")
            /\ UNCHANGED <<phases, ops>>
  /\ UNCHANGED <<o, extract0, suite, deploy, deferred, xmlWrites, metaWrites,
                 kubecfgLoads, runErr>>
  /\ UNCHANGED watcherVars /\ UNCHANGED sigs /\ UNCHANGED exitVars
  /\ UNCHANGED noteVars /\ UNCHANGED otherVars

(* ------------------ deferred functions and main() --------------------- *)

\* defer writeXML(o.dump, time.Now()): deferred last, so it runs first.  A
\* marshal, create or write failure is a log.Fatalf.
WriteXML ==
  /\ ~exited /\ pc = "writeXML"
  /\ \E failed \in BOOLEAN :
       IF failed
         THEN /\ Exit(ExitFailure, "fatal")
              /\ logged' = logged \cup {"writeXML"}
              /\ UNCHANGED <<pc, xmlWrites>>
         ELSE /\ xmlWrites' = xmlWrites + 1
              /\ pc' = "writeMetadata"
              /\ UNCHANGED <<exitVars, logged>>
  /\ UNCHANGED <<o, extract0, err, phases, suite, ops, deploy, deferred,
                 metaWrites, kubecfgLoads, runErr>>
  /\ UNCHANGED watcherVars /\ UNCHANGED sigs
  /\ UNCHANGED <<extractLog, metaErr, kubecfgErr>> /\ UNCHANGED otherVars

\* defer writeMetadata(o.dump): its error result is dropped by defer.
WriteMetadata ==
  /\ ~exited /\ pc = "writeMetadata"
  /\ \E failed \in BOOLEAN :
       /\ metaWrites' = metaWrites + (IF failed THEN 0 ELSE 1)
       /\ metaErr' = failed
  /\ pc' = "main"
  /\ UNCHANGED <<o, extract0, err, phases, suite, ops, deploy, deferred,
                 xmlWrites, kubecfgLoads, runErr>>
  /\ UNCHANGED watcherVars /\ UNCHANGED sigs /\ UNCHANGED exitVars
  /\ UNCHANGED <<extractLog, logged, kubecfgErr>> /\ UNCHANGED otherVars

\* main(): if err := complete(o); err != nil { log.Fatalf(...) }, else the
\* process ends with main.
Main ==
  /\ ~exited /\ pc = "main"
  /\ pc' = "done"
  /\ Exit(IF err # "nil" THEN ExitFailure ELSE 0, "main")
  /\ logged' = (IF err # "nil" THEN logged \cup {err} ELSE logged)
  /\ UNCHANGED <<o, extract0, err, phases, suite, ops, deploy, deferred,
                 xmlWrites, metaWrites, kubecfgLoads, runErr>>
  /\ UNCHANGED watcherVars /\ UNCHANGED sigs
  /\ UNCHANGED <<extractLog, metaErr, kubecfgErr>> /\ UNCHANGED otherVars

(* ------------------ interrupt signals and the watcher ----------------- *)

\* Signal with a channel that queues every signal.
Signal_Unbounded ==
  /\ ~exited /\ sigs < MaxSignals
  /\ sigs' = sigs + 1
  /\ IF wpc = "off"
       THEN /\ Exit(ExitSignal, "signal")
            /\ c' = c
       ELSE /\ c' = c + 1
            /\ UNCHANGED exitVars
  /\ UNCHANGED primaryVars
  /\ UNCHANGED <<extract0, ops>>
  /\ UNCHANGED <<wpc, fedErr, fedTried, downTried, wFed, wDown, handled>>
  /\ UNCHANGED noteVars /\ UNCHANGED otherVars

\* The environment sends SIGINT.  Without signal.Notify the process dies of
\* it; with it the signal is queued in c, or dropped when c is full.
Signal ==
  /\ ~exited /\ sigs < MaxSignals
  /\ sigs' = sigs + 1
  /\ IF wpc = "off"
       THEN /\ Exit(ExitSignal, "signal")
            /\ c' = c
       ELSE /\ c' = (IF c < ChanCap THEN c + 1 ELSE c)
            /\ UNCHANGED exitVars
  /\ UNCHANGED primaryVars
  /\ UNCHANGED <<extract0, ops>>
  /\ UNCHANGED <<wpc, fedErr, fedTried, downTried, wFed, wDown, handled>>
  /\ UNCHANGED noteVars /\ UNCHANGED otherVars

\* WatcherReceive that waits while the primary flow is in its own teardown.
WatcherReceive_Exclusive ==
  /\ ~exited /\ wpc = "recv" /\ c > 0
  /\ pc # "run_down"
  /\ c' = c - 1
  /\ fedErr' = FALSE
  /\ IF o.federation
       THEN /\ wpc' = "fed"
            /\ fedTried' = TRUE /\ downTried' = FALSE
            /\ wFed' = wFed + 1 /\ wDown' = wDown
            /\ ops' = ops \cup {"FedDown"}
       ELSE /\ wpc' = "down"
            /\ fedTried' = FALSE /\ downTried' = TRUE
            /\ wFed' = wFed /\ wDown' = wDown + 1
            /\ ops' = ops \cup {"Down"}
  /\ UNCHANGED primaryVars
  /\ UNCHANGED <<extract0, sigs, handled>> /\ UNCHANGED exitVars
  /\ UNCHANGED noteVars /\ UNCHANGED otherVars

\* for range c { log.Print(...); var fedErr, err error; then FedDown() if
\* o.federation, else straight to deploy.Down()
WatcherReceive ==
  /\ ~exited /\ wpc = "recv" /\ c > 0
  /\ c' = c - 1
  /\ fedErr' = FALSE
  /\ IF o.federation
       THEN /\ wpc' = "fed"
            /\ fedTried' = TRUE /\ downTried' = FALSE
            /\ wFed' = wFed + 1 /\ wDown' = wDown
            /\ ops' = ops \cup {"FedDown"}
       ELSE /\ wpc' = "down"
            /\ fedTried' = FALSE /\ downTried' = TRUE
            /\ wFed' = wFed /\ wDown' = wDown + 1
            /\ ops' = ops \cup {"Down"}
  /\ UNCHANGED primaryVars
  /\ UNCHANGED <<extract0, sigs, handled>> /\ UNCHANGED exitVars
  /\ UNCHANGED noteVars /\ UNCHANGED otherVars

\* WatcherFedDown that gives up as soon as FedDown fails.
WatcherFedDown_ExitEarly ==
  /\ ~exited /\ wpc = "fed"
  /\ \E failed \in BOOLEAN :
       /\ fedErr' = failed
       /\ logged' = (IF failed THEN logged \cup {"FedDown"} ELSE logged)
       /\ IF failed
            THEN /\ Exit(ExitFailure, "watcher")
                 /\ wpc' = "exit"
                 /\ UNCHANGED <<downTried, wDown, ops>>
            ELSE /\ wpc' = "down"
                 /\ downTried' = TRUE
                 /\ wDown' = wDown + 1
                 /\ ops' = ops \cup {"Down"}
                 /\ UNCHANGED exitVars
  /\ UNCHANGED primaryVars
  /\ UNCHANGED <<extract0, sigs, c, fedTried, wFed, handled>>
  /\ UNCHANGED <<extractLog, metaErr, kubecfgErr>> /\ UNCHANGED otherVars

\* if fedErr = FedDown(); fedErr != nil { log.Printf(...) }; then deploy.Down()
WatcherFedDown ==
  /\ ~exited /\ wpc = "fed"
  /\ \E failed \in BOOLEAN :
       /\ fedErr' = failed
       /\ logged' = (IF failed THEN logged \cup {"FedDown"} ELSE logged)
  /\ wpc' = "down"
  /\ downTried' = TRUE
  /\ wDown' = wDown + 1
  /\ ops' = ops \cup {"Down"}
  /\ UNCHANGED primaryVars
  /\ UNCHANGED <<extract0, sigs, c, fedTried, wFed, handled>>
  /\ UNCHANGED exitVars
  /\ UNCHANGED <<extractLog, metaErr, kubecfgErr>> /\ UNCHANGED otherVars

\* if err = deploy.Down(); err != nil { log.Printf(...) };
\* if fedErr != nil || err != nil { os.Exit(1) }; next signal
WatcherDown ==
  /\ ~exited /\ wpc = "down"
  /\ handled' = handled + 1
  /\ \E failed \in BOOLEAN :
       /\ logged' = (IF failed THEN logged \cup {"Down"} ELSE logged)
       /\ IF fedErr \/ failed
            THEN /\ Exit(ExitFailure, "watcher")
                 /\ wpc' = "exit"
            ELSE /\ wpc' = "recv"
                 /\ UNCHANGED exitVars
  /\ UNCHANGED primaryVars
  /\ UNCHANGED <<extract0, ops, sigs, c, fedErr, fedTried, downTried, wFed,
                 wDown>>
  /\ UNCHANGED <<extractLog, metaErr, kubecfgErr>> /\ UNCHANGED otherVars

(* --------------------------- specification ---------------------------- *)

Next ==
  \/ Complete
  \/ Prepare
  \/ AcquireBuild
  \/ AcquireStage
  \/ AcquireExtract
  \/ ValidWorkingDirectory
  \/ SelectDeployer
  \/ RegisterWatcher
  \/ RunUp
  \/ RunIsUp
  \/ RunSetupKubecfg
  \/ RunTest
  \/ RunDown
  \/ RunReturn
  \/ SaveState
  \/ Publish
  \/ WriteXML
  \/ WriteMetadata
  \/ Main
  \/ Signal
  \/ WatcherReceive
  \/ WatcherFedDown
  \/ WatcherDown

Spec == Init /\ [][Next]_vars

(* ----------------------- the cancellation clock ----------------------- *)

\* The options when no flag is given.
DefaultOptions ==
  [build |-> FALSE, stage |-> FALSE, extract |-> <<>>, deployment |-> "bash",
   down |-> FALSE, dump |-> NoPath, federation |-> FALSE, publish |-> NoPath,
   save |-> NoPath, test |-> FALSE, up |-> FALSE]

\* The phase sequence, the watcher and writeMetadata stand still.
ClockFrame ==
  /\ UNCHANGED primaryVars /\ UNCHANGED watcherVars /\ UNCHANGED exitVars
  /\ UNCHANGED noteVars /\ UNCHANGED metaVars
  /\ UNCHANGED <<extract0, ops, sigs>>

\* StopTimer that never goes on to receive from t.C.
StopTimer_NoDrain(t, stopped, drain) ==
  [timer |-> (IF t.st = "armed" THEN [t EXCEPT !.st = "idle"] ELSE t),
   at |-> stopped]

\* t.Stop() followed by the test of its result: a pending timer is
\* cancelled and Stop returns true; a timer that has expired (its value
\* sent or about to be sent) makes Stop return false, and the caller goes on
\* to receive from t.C.
StopTimer(t, stopped, drain) ==
  IF t.st = "armed"
    THEN [timer |-> [t EXCEPT !.st = "idle"], at |-> stopped]
    ELSE [timer |-> t, at |-> drain]

\* The send of the runtime on t.C, a channel of capacity 1: it does not
\* block, the value is dropped when one is queued.
SendTime(t) == [t EXCEPT !.st = "idle", !.C = 1]

\* if !terminate.Stop() {
StopTerminate ==
  /\ cpc = "stop_terminate"
  /\ terminate' = StopTimer(terminate, "stop_interrupt", "drain_terminate").timer
  /\ cpc' = StopTimer(terminate, "stop_interrupt", "drain_terminate").at
  /\ UNCHANGED <<interrupt, timeout, clock, postFires>>
  /\ ClockFrame

\* <-terminate.C: blocks until the value is there.
DrainTerminate ==
  /\ cpc = "drain_terminate"
  /\ terminate.C > 0
  /\ terminate' = [terminate EXCEPT !.C = 0, !.recv = @ + 1]
  /\ cpc' = "stop_interrupt"
  /\ UNCHANGED <<interrupt, timeout, clock, postFires>>
  /\ ClockFrame

\* if !interrupt.Stop() {
StopInterrupt ==
  /\ cpc = "stop_interrupt"
  /\ interrupt' = StopTimer(interrupt, "reset", "drain_interrupt").timer
  /\ cpc' = StopTimer(interrupt, "reset", "drain_interrupt").at
  /\ UNCHANGED <<terminate, timeout, clock, postFires>>
  /\ ClockFrame

\* <-interrupt.C
DrainInterrupt ==
  /\ cpc = "drain_interrupt"
  /\ interrupt.C > 0
  /\ interrupt' = [interrupt EXCEPT !.C = 0, !.recv = @ + 1]
  /\ cpc' = "reset"
  /\ UNCHANGED <<terminate, timeout, clock, postFires>>
  /\ ClockFrame

\* if timeout > 0 { interrupt.Reset(timeout) }
ResetInterrupt ==
  /\ cpc = "reset"
  /\ interrupt' = (IF timeout > 0
                     THEN [interrupt EXCEPT !.st = "armed",
                                            !.when = clock + timeout]
                     ELSE interrupt)
  /\ cpc' = "done"
  /\ UNCHANGED <<terminate, timeout, clock, postFires>>
  /\ ClockFrame

\* The setup is over: the stop-and-drain of both timers has been done.
Drained == cpc \in {"reset", "done"}

\* The runtime finds the terminate timer due and takes it off its heap.
TerminateExpire ==
  /\ terminate.st = "armed" /\ clock >= terminate.when
  /\ terminate' = [terminate EXCEPT !.st = "firing"]
  /\ UNCHANGED <<interrupt, timeout, clock, cpc, postFires>>
  /\ ClockFrame

\* The runtime sends the time on terminate.C.
TerminateSend ==
  /\ terminate.st = "firing"
  /\ terminate' = SendTime(terminate)
  /\ postFires' = [postFires EXCEPT
                     !.terminate = @ + (IF Drained THEN 1 ELSE 0)]
  /\ UNCHANGED <<interrupt, timeout, clock, cpc>>
  /\ ClockFrame

\* The runtime finds the interrupt timer due and takes it off its heap.
InterruptExpire ==
  /\ interrupt.st = "armed" /\ clock >= interrupt.when
  /\ interrupt' = [interrupt EXCEPT !.st = "firing"]
  /\ UNCHANGED <<terminate, timeout, clock, cpc, postFires>>
  /\ ClockFrame

\* The runtime sends the time on interrupt.C.
InterruptSend ==
  /\ interrupt.st = "firing"
  /\ interrupt' = SendTime(interrupt)
  /\ postFires' = [postFires EXCEPT
                     !.interrupt = @ + (IF Drained THEN 1 ELSE 0)]
  /\ UNCHANGED <<terminate, timeout, clock, cpc>>
  /\ ClockFrame

\* Time passes: up to MaxClock ticks while complete() sets the clock up,
\* and long enough afterwards for the longest timeout to elapse.
Tick ==
  /\ clock < (IF cpc = "done" THEN MaxClock + MaxTimeout ELSE MaxClock)
  /\ clock' = clock + 1
  /\ UNCHANGED <<terminate, interrupt, timeout, cpc, postFires>>
  /\ ClockFrame

\* The process from the construction of the timers on, for every --timeout.
InitTimer ==
  /\ o = DefaultOptions
  /\ PhasesStart
  /\ ClockStart /\ timeout \in 0..MaxTimeout
  /\ MetaStart /\ environ = <<>> /\ ver = Unknown

NextTimer ==
  \/ StopTerminate
  \/ DrainTerminate
  \/ StopInterrupt
  \/ DrainInterrupt
  \/ ResetInterrupt
  \/ TerminateExpire
  \/ TerminateSend
  \/ InterruptExpire
  \/ InterruptSend
  \/ Tick

\* complete() keeps running, the runtime delivers what is due, time passes.
SpecTimer ==
  /\ InitTimer /\ [][NextTimer]_vars
  /\ WF_vars(StopTerminate) /\ WF_vars(DrainTerminate)
  /\ WF_vars(StopInterrupt) /\ WF_vars(DrainInterrupt)
  /\ WF_vars(ResetInterrupt)
  /\ WF_vars(TerminateExpire) /\ WF_vars(TerminateSend)
  /\ WF_vars(InterruptExpire) /\ WF_vars(InterruptSend)
  /\ WF_vars(Tick)

(* --------------------------- writeMetadata ---------------------------- *)

\* Strings are sequences of characters.
Upper == <<"A", "B", "C", "D", "E", "F", "G", "H", "I", "J", "K", "L", "M", "N",
          "O", "P", "Q", "R", "S", "T", "U", "V", "W", "X", "Y", "Z">>
Lower == <<"a", "b", "c", "d", "e", "f", "g", "h", "i", "j", "k", "l", "m", "n",
          "o", "p", "q", "r", "s", "t", "u", "v", "w", "x", "y", "z">>

\* strings.ToLower, a character at a time.
ToLower(s) ==
  [i \in DOMAIN s |->
     IF \E u \in DOMAIN Upper : Upper[u] = s[i]
       THEN Lower[CHOOSE u \in DOMAIN Upper : Upper[u] = s[i]]
       ELSE s[i]]

\* strings.SplitN(e, "=", 2): cut at the first "=", the whole of e when it
\* has none.
SplitN(e) ==
  IF \E i \in DOMAIN e : e[i] = "="
    THEN LET i == CHOOSE k \in DOMAIN e :
                    e[k] = "=" /\ \A j \in 1..(k - 1) : e[j] # "="
         IN  <<SubSeq(e, 1, i - 1), SubSeq(e, i + 1, Len(e))>>
    ELSE <<e>>

\* The literal part of the pattern ^BUILD_METADATA_(.+)$
Prefix == <<"B", "U", "I", "L", "D", "_", "M",
           "E", "T", "A", "D", "A", "T", "A", "_">>

\* re.FindStringSubmatch(name): the whole match and the group, << >> (nil)
\* when name does not start with the prefix or has nothing after it.
FindStringSubmatch(name) ==
  IF Len(name) > Len(Prefix) /\ SubSeq(name, 1, Len(Prefix)) = Prefix
    THEN <<name, SubSeq(name, Len(Prefix) + 1, Len(name))>>
    ELSE << >>

\* Names of environment variables tried: two that match the pattern (one
\* of them lower-cases to "version"), the bare prefix, and a stranger.
EnvNames ==
  {Prefix \o <<"V", "E", "R", "S", "I", "O", "N">>,
   Prefix \o <<"F", "o", "o">>,
   Prefix,
   <<"P", "A", "T", "H">>}

\* Values tried, one of them with a "=" in it.
EnvValues == {<<"1">>, <<"a", "=", "b">>}

\* The entries of os.Environ(), "NAME=value".
EnvEntries == {n \o <<"=">> \o v : n \in EnvNames, v \in EnvValues}

\* The environments of up to MaxEnv entries.
EnvLists == UNION {[1..n -> EnvEntries] : n \in 0..MaxEnv}

\* What findVersion() may return.
Versions == {Unknown, <<"v", "1">>}

\* m[k] = v
Put(map, k, v) ==
  [x \in (DOMAIN map) \cup {k} |-> IF x = k THEN v ELSE map[x]]

\* The phase sequence, the watcher and the clock stand still.
MetaFrame ==
  /\ UNCHANGED primaryVars /\ UNCHANGED watcherVars /\ UNCHANGED exitVars
  /\ UNCHANGED noteVars /\ UNCHANGED clockVars
  /\ UNCHANGED <<extract0, ops, sigs>>

\* ver := findVersion(); m["version"] = ver; m["job-version"] = ver
MetaSeed ==
  /\ mpc = "seed"
  /\ m' = Put(Put(m, KeyVersion, ver), KeyJobVersion, ver)
  /\ mpc' = "loop"
  /\ UNCHANGED <<environ, ver, mi>>
  /\ MetaFrame

\* One round of `for _, e := range os.Environ()`.
MetaEntry ==
  /\ mpc = "loop" /\ mi <= Len(environ)
  /\ LET p == SplitN(environ[mi])
         r == FindStringSubmatch(p[1])
     IN  m' = (IF r = << >> THEN m ELSE Put(m, ToLower(r[2]), p[2]))
  /\ mi' = mi + 1
  /\ UNCHANGED <<environ, ver, mpc>>
  /\ MetaFrame

\* os.Create and e.Encode(m): the file holds m, or an error is returned.
MetaEncode ==
  /\ mpc = "loop" /\ mi > Len(environ)
  /\ \E failed \in BOOLEAN : mpc' = (IF failed THEN "failed" ELSE "done")
  /\ UNCHANGED <<environ, ver, m, mi>>
  /\ MetaFrame

\* writeMetadata(o.dump) is called, for every environment and version.
InitMeta ==
  /\ o = [DefaultOptions EXCEPT !.dump = DumpPath]
  /\ PhasesStart
  /\ ClockStart /\ timeout = 0
  /\ MetaStart /\ environ \in EnvLists /\ ver \in Versions

NextMeta ==
  \/ MetaSeed
  \/ MetaEntry
  \/ MetaEncode

SpecMeta == InitMeta /\ [][NextMeta]_vars


(* ------------------------------ properties ---------------------------- *)

Range(f) == {f[i] : i \in DOMAIN f}

\* Position of a phase in the order of complete().
Rank(p) ==
  CASE p = "prepare" -> 1
    [] p = "acquire" -> 2
    [] p = "validwd" -> 3
    [] p = "getDeployer" -> 4
    [] p = "watch" -> 5
    [] p = "run" -> 6
    [] p = "saveState" -> 7
    [] p = "publish" -> 8

\* Phases that every run goes through unless an earlier one fails.
Unconditional == {"prepare", "acquire", "validwd", "getDeployer", "run"}

\* complete() has returned: the deferred functions run or have run.
Returned == pc \in {"writeXML", "writeMetadata", "main", "done"}

\* The acquire-artifacts phase is over and returned no error.
AcquireDone ==
  /\ "acquire" \in Range(phases)
  /\ pc \notin {"build", "stage", "extract"}
  /\ err # "acquire"

\* C1: the phases of complete() start in the fixed order prepare, acquire,
\* working-directory validation, deployer selection, watcher registration,
\* run body, persist, publish, none started before the unconditional ones
\* ahead of it; once a phase has failed it is the last phase started.
C1_PhaseOrder ==
  /\ \A i, j \in 1..Len(phases) : i < j => Rank(phases[i]) < Rank(phases[j])
  /\ \A i \in 1..Len(phases) : \A q \in Unconditional :
       Rank(q) < Rank(phases[i]) => \E k \in 1..(i-1) : phases[k] = q
  /\ err # "nil" => Len(phases) > 0 /\ phases[Len(phases)] = err

\* C1 witness: the working-directory validation failed after two successful
\* phases and the process has ended.
C1_Witness ==
  /\ err = "validwd"
  /\ pc = "done"
  /\ phases = <<"prepare", "acquire", "validwd">>

\* C2: with a dump directory, whenever complete() has returned an error and
\* the process has ended (not killed from outside), the result report and
\* the metadata have each been written exactly once.
C2_ReportOnEveryReturn ==
  (/\ exited /\ exitBy # "signal"
   /\ o.dump # NoPath
   /\ err # "nil" /\ Returned)
    => xmlWrites = 1 /\ metaWrites = 1

\* C3: with dump and down configured, when the watcher's teardown path ends
\* the process, the result report and the metadata have each been written
\* exactly once.
C3_ReportOnWatcherExit ==
  (exitBy = "watcher" /\ o.dump # NoPath /\ o.down)
    => xmlWrites = 1 /\ metaWrites = 1

\* C4: the watcher calls deploy.Down at most once per run, and exactly once
\* when it has handled a signal.
C4_TeardownOnce ==
  /\ wDown <= 1
  /\ handled >= 1 => wDown = 1

\* C5: once the watcher has finished the teardown attempts of a signal the
\* process has been exited by the watcher, so the primary flow is not
\* resumed.
C5_ExitAfterTeardown ==
  handled >= 1 => exited /\ exitBy = "watcher"

\* C6: in each signal handling the watcher calls FedDown first and only if
\* federation was requested, then deploy.Down whether or not FedDown
\* failed; the watcher exits the process, with status 1, only after both
\* have been attempted.
C6_TeardownOrder ==
  /\ ~o.federation => wFed = 0 /\ ~fedTried /\ ~fedErr
  /\ wpc = "fed" => fedTried /\ ~downTried
  /\ (wpc = "down" /\ o.federation) => fedTried
  /\ fedErr => downTried
  /\ wDown = handled + (IF wpc = "down" THEN 1 ELSE 0)
  /\ o.federation => wFed = wDown + (IF wpc = "fed" THEN 1 ELSE 0)
  /\ exitBy = "watcher" =>
       /\ downTried /\ (o.federation => fedTried)
       /\ exitCode = ExitFailure

\* C6 witness: FedDown failed, deploy.Down was attempted all the same, and
\* the watcher has exited the process.
C6_Witness ==
  /\ o.federation /\ fedErr /\ downTried
  /\ exitBy = "watcher" /\ exitCode = ExitFailure

\* C7: the watcher exists iff down is set and deployer selection has
\* succeeded: with down unset it never exists and never calls FedDown or
\* deploy.Down, it never exists while the deployer handle is unset, and with
\* down set it exists from the run body on.
C7_WatcherIffDown ==
  /\ ~o.down => wpc = "off" /\ wFed = 0 /\ wDown = 0 /\ handled = 0
  /\ wpc # "off" => o.down /\ deploy # "nil"
  /\ (o.down /\ "run" \in Range(phases)) => wpc # "off"

\* C7 witness: with down unset an interrupt signal arrived during the run
\* body; no watcher took it.
C7_Witness ==
  /\ ~o.down /\ sigs >= 1
  /\ "run" \in Range(phases)
  /\ exitBy = "signal"

\* Operations that act on a cluster: the deployer lifecycle, the federation
\* teardown, the test run, and the persisting and publishing of its result.
ClusterAffecting ==
  {"Up", "IsUp", "SetupKubecfg", "Test", "Down", "FedDown", "saveState",
   "publish"}

\* C8: when the deployment name is unrecognized or the working directory is
\* invalid, complete() returns that error and no cluster-affecting
\* operation has been invoked, by the primary flow or by a watcher; the
\* process then ends with a non-zero status.
C8_ConfigErrorBeforeCluster ==
  err \in {"validwd", "getDeployer"} =>
    /\ ops \cap ClusterAffecting = {}
    /\ wpc = "off" /\ wFed = 0 /\ wDown = 0
    /\ Range(phases) \cap {"watch", "run", "saveState", "publish"} = {}
    /\ Returned
    /\ exitBy = "main" => exitCode = ExitFailure

\* C8 witness: an unrecognized deployment name ended the run after the
\* artifacts had been staged and extracted.
C8_Witness ==
  /\ err = "getDeployer" /\ o.deployment = "bogus"
  /\ {"Stage", "Extract"} \subseteq ops
  /\ exitBy = "main"

\* C9: with a save path and up unset, after the acquire-artifacts phase the
\* extract list is exactly the one entry (load, save path), whatever the
\* list given on the command line.
C9_ExtractCollapses ==
  (AcquireDone /\ o.save # NoPath /\ ~o.up)
    => o.extract = <<extractStrategy(load, o.save)>>

\* C10: with up set, the acquire-artifacts phase leaves the extract list as
\* given, and it calls loadKubeconfig (once) exactly when a save path is
\* configured, federation is set and the deployment is "none".
C10_OnlyKubeconfigRestored ==
  (AcquireDone /\ o.up) =>
    /\ o.extract = extract0
    /\ kubecfgLoads =
         (IF o.save # NoPath /\ o.federation /\ o.deployment = "none"
            THEN 1 ELSE 0)

\* The run body is over without error: complete() is at or past the
\* decision to persist the state.
PastSave ==
  \/ pc = "publish"
  \/ Returned /\ err \in {"nil", "saveState", "publish"}

\* C11 as stated: saveState is invoked iff the run body succeeded, a save
\* path is configured and either the cluster was brought up and not torn
\* down or only the federation control plane was set up, with no primary
\* cluster (federation with deployment "none").
C11_SaveStateFederationOnly ==
  /\ "saveState" \in ops => PastSave
  /\ PastSave =>
       ("saveState" \in ops <=>
          /\ o.save # NoPath
          /\ \/ o.up /\ ~o.down
             \/ o.federation /\ o.deployment = "none")

\* C11 amended: saveState is invoked iff the run body succeeded, a save
\* path is configured, the cluster was brought up, and either it is not
\* torn down or it is a primary cluster (deployment other than "none")
\* brought up without the federation control plane.
C11_SaveStateIff ==
  /\ "saveState" \in ops => PastSave
  /\ PastSave =>
       ("saveState" \in ops <=>
          /\ o.save # NoPath /\ o.up
          /\ ~o.down \/ (~o.federation /\ o.deployment # "none"))

\* C11 witness: the state was persisted for a cluster that was brought up
\* without federation and torn down again.
C11_Witness ==
  /\ "saveState" \in ops
  /\ o.up /\ o.down /\ ~o.federation /\ o.deployment = "bash"

\* The names getDeployer knows.
DeployerNames == {"none", "bash", "kops", "kubernetes-anywhere"}

StrategyRank(n) ==
  CASE n = "Build" -> 1
    [] n = "Stage" -> 2
    [] n = "Extract" -> 3

IsStrategy(r) == r.Name \in {"Build", "Stage", "Extract"}

\* The strategy was given on the command line.
StrategyEnabled(n) ==
  CASE n = "Build" -> o.build
    [] n = "Stage" -> o.stage
    [] n = "Extract" -> Enabled(extract0)

\* C13: the strategies are executed in the order Build, Stage, Extract; a
\* strategy is executed iff it is recorded, and only if it is enabled; a
\* failed strategy is recorded, is the last one executed and fails the
\* phase; a phase that ends without error has executed every enabled one.
C13_StrategyOrder ==
  LET a == SelectSeq(suite, IsStrategy) IN
    /\ \A i, j \in 1..Len(a) :
         i < j => StrategyRank(a[i].Name) < StrategyRank(a[j].Name)
    /\ \A i \in 1..Len(a) : StrategyEnabled(a[i].Name)
    /\ \A n \in {"Build", "Stage", "Extract"} :
         n \in ops <=> \E i \in 1..Len(a) : a[i].Name = n
    /\ \A i \in 1..Len(a) : a[i].Failure => i = Len(a) /\ err = "acquire"
    /\ AcquireDone =>
         \A n \in {"Build", "Stage", "Extract"} :
           StrategyEnabled(n) => n \in ops

\* C13 witness: Build failed and was recorded; Stage and Extract, both
\* enabled, were never executed.
C13_Witness ==
  /\ o.build /\ o.stage /\ Enabled(extract0)
  /\ suite = <<testCase("Build", TRUE)>>
  /\ ops \cap {"Stage", "Extract"} = {}
  /\ pc = "done"

\* Every phase the options ask for has been started.
ConfiguredPhasesStarted ==
  /\ Unconditional \subseteq Range(phases)
  /\ o.down => "watch" \in Range(phases)
  /\ SavesState(o) => "saveState" \in Range(phases)
  /\ o.publish # NoPath => "publish" \in Range(phases)

\* C14: when the process has ended, its status is non-zero if a phase of
\* complete() failed and if a signal-triggered teardown (FedDown or
\* deploy.Down of the watcher) failed, and a status of 0 means that main
\* ended after every configured phase ran without error.
C14_ExitStatus ==
  exited =>
    /\ err # "nil" => exitCode # 0
    /\ (fedErr \/ exitBy = "watcher") => exitCode # 0
    /\ exitCode = 0 =>
         /\ exitBy = "main" /\ err = "nil"
         /\ ConfiguredPhasesStarted

\* Deployer operations: the four of the deployer interface.
DeployerOps == {"Up", "IsUp", "SetupKubecfg", "Down"}

\* C19: the watcher's teardown is not held back by the primary flow (a
\* queued signal can always be taken and deploy.Down called, wherever the
\* primary flow is, and the primary flow's own teardown can go on while the
\* watcher's is in progress); deployer operations are invoked only by the
\* run body of the primary flow and by the watcher, on a handle that is set.
C19_SharedHandle ==
  /\ (~exited /\ wpc = "recv" /\ c > 0) => ENABLED WatcherReceive
  /\ (~exited /\ wpc = "fed") => ENABLED WatcherFedDown
  /\ (~exited /\ pc = "run_down") => ENABLED RunDown
  /\ ops \cap {"Up", "IsUp", "SetupKubecfg"} # {} => "run" \in Range(phases)
  /\ "Down" \in ops => wDown > 0 \/ ("run" \in Range(phases) /\ o.down)
  /\ ops \cap DeployerOps # {} => deploy # "nil"

\* C19 witness: the watcher's deploy.Down and the primary flow's own
\* deploy.Down are in progress together.
C19_Witness ==
  /\ ~exited /\ o.down
  /\ wpc = "down" /\ wDown = 1
  /\ pc = "run_down"

\* Signal handlings the watcher has started.
Started == IF o.federation THEN wFed ELSE wDown

\* C20: at most one signal is pending in the channel, at most one handling
\* is in progress, a handling in progress is the watcher's current one, and
\* the signals taken or pending never exceed those delivered (the others
\* were dropped).
C20_OneAtATime ==
  /\ c \in 0..ChanCap
  /\ Started - handled \in {0, 1}
  /\ Started - handled = 1 <=> wpc \in {"fed", "down"}
  /\ Started + c <= sigs

\* C20 witness: a second signal arrived while the first teardown was in
\* progress and is queued.
C20_Witness ==
  /\ wpc = "down" /\ c = 1
  /\ handled = 0 /\ sigs = 2

\* Position of step x in the Extract step's log, 0 if it did not happen.
LogPos(x) ==
  IF \E i \in DOMAIN extractLog : extractLog[i] = x
    THEN CHOOSE i \in DOMAIN extractLog : extractLog[i] = x
    ELSE 0

\* C16: when the Extract step rewrites the extract list or restores the
\* connection configuration, it has done so before Extract() is called and
\* before the recording of "Extract" begins (before xmlWrap is entered).
C16_RewriteOutsideRecording ==
  LogPos("restore") > 0 =>
    /\ LogPos("restore") < LogPos("Extract")
    /\ LogPos("restore") < LogPos("xmlWrap")

\* Operations that have failed by now and whose error has stopped
\* travelling: results that were dropped, errors that reached main(), and
\* the failures that ended the process.
Failures ==
  {suite[i].Name : i \in {j \in DOMAIN suite : suite[j].Failure}}
  \cup (IF kubecfgErr THEN {"loadKubeconfig"} ELSE {})
  \cup (IF metaErr THEN {"writeMetadata"} ELSE {})
  \cup (IF fedErr THEN {"FedDown"} ELSE {})
  \cup (IF exitBy = "watcher" /\ ~fedErr THEN {"Down"} ELSE {})
  \cup (IF exitBy = "fatal" THEN {"writeXML"} ELSE {})
  \cup (IF pc = "done" /\ err # "nil" THEN {err} ELSE {})

\* The failure of f is in the result report or in the log.
Noted(f) ==
  \/ f \in logged
  \/ \E i \in DOMAIN suite : suite[i].Name = f /\ suite[i].Failure

\* C17: no error is swallowed: every operation that failed has its failure
\* recorded in the result report or logged.
C17_NoSwallowedError == \A f \in Failures : Noted(f)

\* What the cancellation setup leaves behind: once both timers are stopped
\* and drained their channels are empty and the terminate timer is idle and
\* is never sent again; with timeout = 0 the interrupt timer stays idle and
\* is never sent; with timeout > 0 it is sent at most once, no earlier than
\* its deadline, and until then it is pending with an empty channel.
SetupClean ==
  /\ postFires.terminate = 0
  /\ postFires.interrupt <= 1
  /\ Drained =>
       /\ terminate.st = "idle" /\ terminate.C = 0
       /\ interrupt.C = postFires.interrupt
       /\ cpc = "reset" => interrupt.st = "idle" /\ interrupt.C = 0
       /\ (cpc = "done" /\ timeout = 0) =>
            interrupt.st = "idle" /\ interrupt.C = 0
       /\ (cpc = "done" /\ timeout > 0) =>
            /\ interrupt.st = "armed" => interrupt.C = 0
            /\ interrupt.st # "armed" => clock >= interrupt.when
            /\ interrupt.when >= timeout

\* C18: the cancellation setup always terminates and leaves no stale value:
\* after the stop-and-drain both channels are empty, the interrupt timer is
\* armed iff timeout > 0 and then fires exactly once, after the timeout has
\* elapsed; otherwise it never fires; the terminate timer never fires after
\* the setup.
C18_CancellationSetup ==
  /\ []SetupClean
  /\ <>(cpc = "done")
  /\ [](timeout > 0 => <>(postFires.interrupt = 1))

\* C18 witness: both timers had expired before complete() stopped them,
\* they were drained, and the re-armed interrupt timer has fired once, after
\* the longest timeout.
C18_Witness ==
  /\ cpc = "done" /\ timeout = MaxTimeout
  /\ interrupt.st = "idle" /\ interrupt.C = 1 /\ postFires.interrupt = 1
  /\ interrupt.when > timeout /\ interrupt.recv = 1
  /\ terminate.st = "idle" /\ terminate.C = 0 /\ terminate.recv = 1

\* C15: in the metadata written, "version" and "job-version" both carry
\* the version findVersion() detected, whatever the environment holds.
C15_VersionKeysAgree ==
  mpc = "done" =>
    /\ m[KeyVersion] = ver
    /\ m[KeyJobVersion] = ver

====
